---- MODULE Spec2Model ----
(***************************************************************************)
(* BN254 operation layer, endianness adapter and error taxonomy of         *)
(* groth16-solana (src/src/bn254.rs, src/src/errors.rs).                   *)
(*                                                                         *)
(* One behaviour is one call: Init draws the build configuration           *)
(* (target_os, the circom feature) and the call's arguments, the action    *)
(* for the called function computes its return value.  The external curve  *)
(* provider (the two pinocchio syscalls) is the environment: its return    *)
(* code and the bytes it writes are chosen nondeterministically.           *)
(***************************************************************************)
EXTENDS Integers, Sequences, FiniteSets, TLC

VARIABLES target_os, circom, pc, op, input, chunk_size, error,
          ret, syscalls, writes, code, restored

vars == <<target_os, circom, pc, op, input, chunk_size, error,
          ret, syscalls, writes, code, restored>>

----------------------------------------------------------------------------
(* Bounds of the model *)

\* byte values drawn for buffer contents: 0..MaxByte
MaxByte == 2
\* provider return codes drawn: 0..MaxReturnCode
MaxReturnCode == 2
\* slice inputs of the group operations have lengths 32*w-1, 32*w, 32*w+1, w <= MaxWords
MaxWords == 12
\* convert_endianness is applied to arrays of 0..MaxArraySize bytes
MaxArraySize == 5
\* with CHUNK_SIZE in 0..MaxChunkSize
MaxChunkSize == 4

Byte == 0..MaxByte
ReturnCodes == 0..MaxReturnCode

----------------------------------------------------------------------------
(* Constants of bn254.rs *)

ALT_BN128_G1_ADD == 0
ALT_BN128_G1_MUL == 2
ALT_BN128_PAIRING == 3

ALT_BN128_G1_COMPRESS == 0
ALT_BN128_G1_DECOMPRESS == 1
ALT_BN128_G2_COMPRESS == 2
ALT_BN128_G2_DECOMPRESS == 3

ALT_BN128_ADDITION_INPUT_SIZE == 128
ALT_BN128_ADDITION_OUTPUT_SIZE == 64
ALT_BN128_MULTIPLICATION_INPUT_SIZE == 96
ALT_BN128_MULTIPLICATION_OUTPUT_SIZE == 64
ALT_BN128_PAIRING_ELEMENT_SIZE == 192
ALT_BN128_PAIRING_OUTPUT_SIZE == 32
ALT_BN128_G1_POINT_SIZE == 64
ALT_BN128_G1_COMPRESSED_SIZE == 32
ALT_BN128_G2_POINT_SIZE == 128
ALT_BN128_G2_COMPRESSED_SIZE == 64

----------------------------------------------------------------------------
(* Result<_, Groth16Error> and buffers *)

Ok(v) == [kind |-> "Ok", value |-> v, err |-> "none"]
Err(e) == [kind |-> "Err", value |-> <<>>, err |-> e]
Panic == [kind |-> "Panic", value |-> <<>>, err |-> "none"]
NoReturn == [kind |-> "None", value |-> <<>>, err |-> "none"]

\* vec![0u8; n] / [0u8; n]
Zeroed(n) == [i \in 1..n |-> 0]

\* a buffer of n bytes, all b
Fill(n, b) == [i \in 1..n |-> b]

\* what the provider leaves in a buffer of n bytes it was handed: body bytes
\* and a final byte (out = <<0, 0>> is the buffer left as it was, zeroed)
Written(n, out) == [i \in 1..n |-> IF i = n THEN out[2] ELSE out[1]]

ProviderOutputs == Byte \X Byte

----------------------------------------------------------------------------
(* The provider boundary: the call, as the wrapper sees it.  rc is the     *)
(* returned status, out the bytes written through the result pointer.      *)

sol_alt_bn128_group_op(group_op, in, result, rc, out) ==
    [fn |-> "sol_alt_bn128_group_op", op |-> group_op, input_len |-> Len(in),
     return_code |-> rc, result |-> Written(Len(result), out)]

sol_alt_bn128_compression(compression_op, in, result, rc, out) ==
    [fn |-> "sol_alt_bn128_compression", op |-> compression_op, input_len |-> Len(in),
     return_code |-> rc, result |-> Written(Len(result), out)]

Returned(r, calls) == [ret |-> r, syscalls |-> calls]

----------------------------------------------------------------------------
(* G1 addition *)

\* variant: the length guard is missing
alt_bn128_addition_unguarded(target, in, rc, out) ==
    IF target = "solana"
    THEN LET call == sol_alt_bn128_group_op(ALT_BN128_G1_ADD, in,
                         Zeroed(ALT_BN128_ADDITION_OUTPUT_SIZE), rc, out)
         IN  IF call.return_code # 0
             THEN Returned(Err("PreparingInputsG1AdditionFailed"), <<call>>)
             ELSE Returned(Ok(call.result), <<call>>)
    ELSE Returned(Err("PreparingInputsG1AdditionFailed"), <<>>)

alt_bn128_addition(target, in, rc, out) ==
    IF Len(in) > ALT_BN128_ADDITION_INPUT_SIZE
    THEN Returned(Err("PreparingInputsG1AdditionFailed"), <<>>)
    ELSE IF target = "solana"
    THEN LET call == sol_alt_bn128_group_op(ALT_BN128_G1_ADD, in,
                         Zeroed(ALT_BN128_ADDITION_OUTPUT_SIZE), rc, out)
         IN  IF call.return_code # 0
             THEN Returned(Err("PreparingInputsG1AdditionFailed"), <<call>>)
             ELSE Returned(Ok(call.result), <<call>>)
    ELSE Returned(Err("PreparingInputsG1AdditionFailed"), <<>>)

(* G1 scalar multiplication *)

\* variant: the guard compares against the addition input size
alt_bn128_multiplication_addsize(target, in, rc, out) ==
    IF Len(in) > ALT_BN128_ADDITION_INPUT_SIZE
    THEN Returned(Err("PreparingInputsG1MulFailed"), <<>>)
    ELSE IF target = "solana"
    THEN LET call == sol_alt_bn128_group_op(ALT_BN128_G1_MUL, in,
                         Zeroed(ALT_BN128_MULTIPLICATION_OUTPUT_SIZE), rc, out)
         IN  IF call.return_code # 0
             THEN Returned(Err("PreparingInputsG1MulFailed"), <<call>>)
             ELSE Returned(Ok(call.result), <<call>>)
    ELSE Returned(Err("PreparingInputsG1MulFailed"), <<>>)

alt_bn128_multiplication(target, in, rc, out) ==
    IF Len(in) > ALT_BN128_MULTIPLICATION_INPUT_SIZE
    THEN Returned(Err("PreparingInputsG1MulFailed"), <<>>)
    ELSE IF target = "solana"
    THEN LET call == sol_alt_bn128_group_op(ALT_BN128_G1_MUL, in,
                         Zeroed(ALT_BN128_MULTIPLICATION_OUTPUT_SIZE), rc, out)
         IN  IF call.return_code # 0
             THEN Returned(Err("PreparingInputsG1MulFailed"), <<call>>)
             ELSE Returned(Ok(call.result), <<call>>)
    ELSE Returned(Err("PreparingInputsG1MulFailed"), <<>>)

(* Multi-pairing *)

\* variant: the guard takes the length modulo the G1 point size
alt_bn128_pairing_g1size(target, in, rc, out) ==
    IF Len(in) % ALT_BN128_G1_POINT_SIZE # 0
    THEN Returned(Err("ProofVerificationFailed"), <<>>)
    ELSE IF target = "solana"
    THEN LET call == sol_alt_bn128_group_op(ALT_BN128_PAIRING, in,
                         Zeroed(ALT_BN128_PAIRING_OUTPUT_SIZE), rc, out)
         IN  IF call.return_code # 0
             THEN Returned(Err("ProofVerificationFailed"), <<call>>)
             ELSE Returned(Ok(call.result), <<call>>)
    ELSE Returned(Err("ProofVerificationFailed"), <<>>)

\* variant: the return code of the provider is not looked at
alt_bn128_pairing_unchecked(target, in, rc, out) ==
    IF Len(in) % ALT_BN128_PAIRING_ELEMENT_SIZE # 0
    THEN Returned(Err("ProofVerificationFailed"), <<>>)
    ELSE IF target = "solana"
    THEN LET call == sol_alt_bn128_group_op(ALT_BN128_PAIRING, in,
                         Zeroed(ALT_BN128_PAIRING_OUTPUT_SIZE), rc, out)
         IN  Returned(Ok(call.result), <<call>>)
    ELSE Returned(Err("ProofVerificationFailed"), <<>>)

alt_bn128_pairing(target, in, rc, out) ==
    IF Len(in) % ALT_BN128_PAIRING_ELEMENT_SIZE # 0
    THEN Returned(Err("ProofVerificationFailed"), <<>>)
    ELSE IF target = "solana"
    THEN LET call == sol_alt_bn128_group_op(ALT_BN128_PAIRING, in,
                         Zeroed(ALT_BN128_PAIRING_OUTPUT_SIZE), rc, out)
         IN  IF call.return_code # 0
             THEN Returned(Err("ProofVerificationFailed"), <<call>>)
             ELSE Returned(Ok(call.result), <<call>>)
    ELSE Returned(Err("ProofVerificationFailed"), <<>>)

----------------------------------------------------------------------------
(* Point compression and decompression: fixed-size arrays in and out *)

\* variant: the block for other targets is missing, the zeroed buffer is returned
alt_bn128_g1_compress_fallthrough(target, point, rc, out) ==
    IF target = "solana"
    THEN LET call == sol_alt_bn128_compression(ALT_BN128_G1_COMPRESS, point,
                         Zeroed(ALT_BN128_G1_COMPRESSED_SIZE), rc, out)
         IN  IF call.return_code # 0
             THEN Returned(Err("ProofConversionError"), <<call>>)
             ELSE Returned(Ok(call.result), <<call>>)
    ELSE Returned(Ok(Zeroed(ALT_BN128_G1_COMPRESSED_SIZE)), <<>>)

alt_bn128_g1_compress(target, point, rc, out) ==
    IF target = "solana"
    THEN LET call == sol_alt_bn128_compression(ALT_BN128_G1_COMPRESS, point,
                         Zeroed(ALT_BN128_G1_COMPRESSED_SIZE), rc, out)
         IN  IF call.return_code # 0
             THEN Returned(Err("ProofConversionError"), <<call>>)
             ELSE Returned(Ok(call.result), <<call>>)
    ELSE Returned(Err("ProofConversionError"), <<>>)

\* variant: a failed decompression is reported with the compression error
alt_bn128_g1_decompress_wrongerr(target, compressed, rc, out) ==
    IF target = "solana"
    THEN LET call == sol_alt_bn128_compression(ALT_BN128_G1_DECOMPRESS, compressed,
                         Zeroed(ALT_BN128_G1_POINT_SIZE), rc, out)
         IN  IF call.return_code # 0
             THEN Returned(Err("ProofConversionError"), <<call>>)
             ELSE Returned(Ok(call.result), <<call>>)
    ELSE Returned(Err("DecompressingG1Failed"), <<>>)

alt_bn128_g1_decompress(target, compressed, rc, out) ==
    IF target = "solana"
    THEN LET call == sol_alt_bn128_compression(ALT_BN128_G1_DECOMPRESS, compressed,
                         Zeroed(ALT_BN128_G1_POINT_SIZE), rc, out)
         IN  IF call.return_code # 0
             THEN Returned(Err("DecompressingG1Failed"), <<call>>)
             ELSE Returned(Ok(call.result), <<call>>)
    ELSE Returned(Err("DecompressingG1Failed"), <<>>)

alt_bn128_g2_compress(target, point, rc, out) ==
    IF target = "solana"
    THEN LET call == sol_alt_bn128_compression(ALT_BN128_G2_COMPRESS, point,
                         Zeroed(ALT_BN128_G2_COMPRESSED_SIZE), rc, out)
         IN  IF call.return_code # 0
             THEN Returned(Err("ProofConversionError"), <<call>>)
             ELSE Returned(Ok(call.result), <<call>>)
    ELSE Returned(Err("ProofConversionError"), <<>>)

alt_bn128_g2_decompress(target, compressed, rc, out) ==
    IF target = "solana"
    THEN LET call == sol_alt_bn128_compression(ALT_BN128_G2_DECOMPRESS, compressed,
                         Zeroed(ALT_BN128_G2_POINT_SIZE), rc, out)
         IN  IF call.return_code # 0
             THEN Returned(Err("DecompressingG2Failed"), <<call>>)
             ELSE Returned(Ok(call.result), <<call>>)
    ELSE Returned(Err("DecompressingG2Failed"), <<>>)

----------------------------------------------------------------------------
(* convert_endianness::<CHUNK_SIZE, ARRAY_SIZE>                            *)
(* Indices are the 0-based indices of the source; a buffer's byte at       *)
(* index i is element i + 1 of the sequence.                               *)

\* variant: chunks_exact, a trailing partial chunk is not visited
chunks_exact(bytes, CHUNK_SIZE) ==
    [k \in 1..(Len(bytes) \div CHUNK_SIZE) |->
        SubSeq(bytes, (k - 1) * CHUNK_SIZE + 1, k * CHUNK_SIZE)]

\* bytes.chunks(CHUNK_SIZE): consecutive slices of CHUNK_SIZE bytes, the last
\* one shorter when the length is not a multiple (CHUNK_SIZE >= 1)
chunks(bytes, CHUNK_SIZE) ==
    [k \in 1..((Len(bytes) + CHUNK_SIZE - 1) \div CHUNK_SIZE) |->
        SubSeq(bytes, (k - 1) * CHUNK_SIZE + 1,
               IF k * CHUNK_SIZE < Len(bytes) THEN k * CHUNK_SIZE ELSE Len(bytes))]

\* variant: the chunk is iterated front to back
rev_forward(chunk) == chunk

\* chunk.iter().rev()
rev(chunk) == [i \in 1..Len(chunk) |-> chunk[Len(chunk) + 1 - i]]

\* variant: start is the chunk index, not multiplied by the chunk size
chunk_writes_nostride(chunk_idx, chunk, CHUNK_SIZE) ==
    LET start == chunk_idx
    IN  [i \in 1..Len(chunk) |-> [idx |-> start + (i - 1), byte |-> rev(chunk)[i]]]

\* body of the outer loop: the stores result[start + i] = byte of one chunk
chunk_writes(chunk_idx, chunk, CHUNK_SIZE) ==
    LET start == chunk_idx * CHUNK_SIZE
    IN  [i \in 1..Len(chunk) |-> [idx |-> start + (i - 1), byte |-> rev(chunk)[i]]]

\* the stores of the chunks from chunk_idx on, in program order
RECURSIVE all_writes(_, _, _)
all_writes(cs, chunk_idx, CHUNK_SIZE) ==
    IF chunk_idx >= Len(cs) THEN <<>>
    ELSE chunk_writes(chunk_idx, cs[chunk_idx + 1], CHUNK_SIZE)
            \o all_writes(cs, chunk_idx + 1, CHUNK_SIZE)

\* performs the stores ws in program order on result: an index outside the array
\* panics, otherwise each byte holds the last value stored at its index
store(result, ws) ==
    IF \E n \in 1..Len(ws) : ws[n].idx >= Len(result) THEN Panic
    ELSE Ok([j \in 1..Len(result) |->
                LET hits == {n \in 1..Len(ws) : ws[n].idx = j - 1}
                IN  IF hits = {} THEN result[j]
                    ELSE ws[CHOOSE n \in hits : \A m \in hits : m <= n].byte])

convert_endianness(bytes, CHUNK_SIZE) ==
    IF CHUNK_SIZE = 0
    THEN [ret |-> Panic, writes |-> <<>>]      \* chunks(0) panics
    ELSE LET ws == all_writes(chunks(bytes, CHUNK_SIZE), 0, CHUNK_SIZE)
         IN  [ret |-> store(Zeroed(Len(bytes)), ws), writes |-> ws]

----------------------------------------------------------------------------
(* errors.rs *)

\* the variants of the enum; the last one exists with feature "circom" only
Groth16Error(feature_circom) ==
    {"IncompatibleVerifyingKeyWithNrPublicInputs", "ProofVerificationFailed",
     "PreparingInputsG1AdditionFailed", "PreparingInputsG1MulFailed",
     "InvalidG1Length", "InvalidG2Length", "InvalidPublicInputsLength",
     "DecompressingG1Failed", "DecompressingG2Failed",
     "PublicInputGreaterThanFieldSize", "ProofConversionError"}
    \cup (IF feature_circom THEN {"ArkworksSerializationError"} ELSE {})

\* variant: ProofConversionError was given the code of the variant before it
u32_from_duplicate(e) ==
    CASE e = "IncompatibleVerifyingKeyWithNrPublicInputs" -> 0
      [] e = "ProofVerificationFailed" -> 1
      [] e = "PreparingInputsG1AdditionFailed" -> 2
      [] e = "PreparingInputsG1MulFailed" -> 3
      [] e = "InvalidG1Length" -> 4
      [] e = "InvalidG2Length" -> 5
      [] e = "InvalidPublicInputsLength" -> 6
      [] e = "DecompressingG1Failed" -> 7
      [] e = "DecompressingG2Failed" -> 8
      [] e = "PublicInputGreaterThanFieldSize" -> 9
      [] e = "ProofConversionError" -> 9
      [] e = "ArkworksSerializationError" -> 11

\* impl From<Groth16Error> for u32
u32_from(e) ==
    CASE e = "IncompatibleVerifyingKeyWithNrPublicInputs" -> 0
      [] e = "ProofVerificationFailed" -> 1
      [] e = "PreparingInputsG1AdditionFailed" -> 2
      [] e = "PreparingInputsG1MulFailed" -> 3
      [] e = "InvalidG1Length" -> 4
      [] e = "InvalidG2Length" -> 5
      [] e = "InvalidPublicInputsLength" -> 6
      [] e = "DecompressingG1Failed" -> 7
      [] e = "DecompressingG2Failed" -> 8
      [] e = "PublicInputGreaterThanFieldSize" -> 9
      [] e = "ProofConversionError" -> 10
      [] e = "ArkworksSerializationError" -> 11

----------------------------------------------------------------------------
(* The verifier's pairing stage, after spec.md 4.5 (the verifier is not    *)
(* part of bn254.rs).  The assembled input holds PAIRING_PAIRS             *)
(* elements; a failed pairing call propagates, and a result whose final    *)
(* byte is not 1 is ProofVerificationFailed.                               *)

PAIRING_PAIRS == 4

verify(target, pairing_input, rc, out) ==
    LET p == alt_bn128_pairing(target, pairing_input, rc, out)
    IN  IF p.ret.kind = "Err" THEN Returned(Err(p.ret.err), p.syscalls)
        ELSE IF p.ret.value[ALT_BN128_PAIRING_OUTPUT_SIZE] # 1
        THEN Returned(Err("ProofVerificationFailed"), p.syscalls)
        ELSE Returned(Ok(<<>>), p.syscalls)

----------------------------------------------------------------------------
(* Arguments drawn for a call *)

\* &[u8] arguments of the three group operations
SliceLens == {l \in {32 * w + d : w \in 0..MaxWords, d \in {-1, 0, 1}} : l >= 0}
SliceInputs == {Fill(l, b) : l \in SliceLens, b \in Byte}

\* &[u8; N] arguments
ArrayInputs(n) == {Fill(n, b) : b \in Byte}

\* &[u8; ARRAY_SIZE] arguments of convert_endianness, every content
SmallArrays == UNION {[1..n -> Byte] : n \in 0..MaxArraySize}

\* the arrays of test_convert_endianness_32_64 and test_convert_endianness_64_128
Iota(n) == [i \in 1..n |-> i]

GroupOps == {"alt_bn128_addition", "alt_bn128_multiplication", "alt_bn128_pairing"}

Operations == GroupOps \cup
    {"alt_bn128_g1_compress", "alt_bn128_g1_decompress",
     "alt_bn128_g2_compress", "alt_bn128_g2_decompress"}

Arguments(o, feature_circom) ==
    CASE o \in GroupOps ->
            {[input |-> b, chunk_size |-> 0, error |-> "none"] : b \in SliceInputs}
      [] o = "alt_bn128_g1_compress" ->
            {[input |-> b, chunk_size |-> 0, error |-> "none"] :
                b \in ArrayInputs(ALT_BN128_G1_POINT_SIZE)}
      [] o = "alt_bn128_g1_decompress" ->
            {[input |-> b, chunk_size |-> 0, error |-> "none"] :
                b \in ArrayInputs(ALT_BN128_G1_COMPRESSED_SIZE)}
      [] o = "alt_bn128_g2_compress" ->
            {[input |-> b, chunk_size |-> 0, error |-> "none"] :
                b \in ArrayInputs(ALT_BN128_G2_POINT_SIZE)}
      [] o = "alt_bn128_g2_decompress" ->
            {[input |-> b, chunk_size |-> 0, error |-> "none"] :
                b \in ArrayInputs(ALT_BN128_G2_COMPRESSED_SIZE)}
      [] o = "verify" ->
            {[input |-> b, chunk_size |-> 0, error |-> "none"] :
                b \in ArrayInputs(PAIRING_PAIRS * ALT_BN128_PAIRING_ELEMENT_SIZE)}
      [] o = "convert_endianness" ->
            {[input |-> b, chunk_size |-> c, error |-> "none"] :
                b \in SmallArrays, c \in 0..MaxChunkSize}
            \cup {[input |-> Iota(64), chunk_size |-> 32, error |-> "none"],
                  [input |-> Iota(128), chunk_size |-> 64, error |-> "none"]}
      [] o = "u32_from" ->
            {[input |-> <<>>, chunk_size |-> 0, error |-> e] :
                e \in Groth16Error(feature_circom)}

Init ==
    /\ target_os \in {"solana", "other"}
    /\ circom \in BOOLEAN
    /\ pc = "call"
    /\ op \in Operations \cup {"verify", "convert_endianness", "u32_from"}
    /\ \E a \in Arguments(op, circom) :
          /\ input = a.input
          /\ chunk_size = a.chunk_size
          /\ error = a.error
    /\ ret = NoReturn
    /\ syscalls = <<>>
    /\ writes = <<>>
    /\ code = -1
    /\ restored = <<>>

----------------------------------------------------------------------------
(* One action per function *)

Return(r) ==
    /\ ret' = r.ret
    /\ syscalls' = r.syscalls
    /\ pc' = "done"
    /\ UNCHANGED <<target_os, circom, op, input, chunk_size, error, writes, code, restored>>

Addition ==
    /\ pc = "call" /\ op = "alt_bn128_addition"
    /\ \E rc \in ReturnCodes, out \in ProviderOutputs :
          Return(alt_bn128_addition(target_os, input, rc, out))

Multiplication ==
    /\ pc = "call" /\ op = "alt_bn128_multiplication"
    /\ \E rc \in ReturnCodes, out \in ProviderOutputs :
          Return(alt_bn128_multiplication(target_os, input, rc, out))

Pairing ==
    /\ pc = "call" /\ op = "alt_bn128_pairing"
    /\ \E rc \in ReturnCodes, out \in ProviderOutputs :
          Return(alt_bn128_pairing(target_os, input, rc, out))

G1Compress ==
    /\ pc = "call" /\ op = "alt_bn128_g1_compress"
    /\ \E rc \in ReturnCodes, out \in ProviderOutputs :
          Return(alt_bn128_g1_compress(target_os, input, rc, out))

G1Decompress ==
    /\ pc = "call" /\ op = "alt_bn128_g1_decompress"
    /\ \E rc \in ReturnCodes, out \in ProviderOutputs :
          Return(alt_bn128_g1_decompress(target_os, input, rc, out))

G2Compress ==
    /\ pc = "call" /\ op = "alt_bn128_g2_compress"
    /\ \E rc \in ReturnCodes, out \in ProviderOutputs :
          Return(alt_bn128_g2_compress(target_os, input, rc, out))

G2Decompress ==
    /\ pc = "call" /\ op = "alt_bn128_g2_decompress"
    /\ \E rc \in ReturnCodes, out \in ProviderOutputs :
          Return(alt_bn128_g2_decompress(target_os, input, rc, out))

Verify ==
    /\ pc = "call" /\ op = "verify"
    /\ \E rc \in ReturnCodes, out \in ProviderOutputs :
          Return(verify(target_os, input, rc, out))

ConvertEndianness ==
    /\ pc = "call" /\ op = "convert_endianness"
    /\ LET r == convert_endianness(input, chunk_size)
       IN  /\ ret' = r.ret
           /\ writes' = r.writes
    /\ pc' = "done"
    /\ UNCHANGED <<target_os, circom, op, input, chunk_size, error, syscalls, code, restored>>

\* the caller applies the transform to the returned array, same CHUNK_SIZE
ConvertEndiannessAgain ==
    /\ pc = "done" /\ op = "convert_endianness" /\ ret.kind = "Ok"
    /\ restored' = convert_endianness(ret.value, chunk_size).ret.value
    /\ pc' = "restored"
    /\ UNCHANGED <<target_os, circom, op, input, chunk_size, error, ret, syscalls, writes, code>>

IntoU32 ==
    /\ pc = "call" /\ op = "u32_from"
    /\ code' = u32_from(error)
    /\ pc' = "done"
    /\ UNCHANGED <<target_os, circom, op, input, chunk_size, error, ret, syscalls, writes, restored>>

Next ==
    \/ Addition
    \/ Multiplication
    \/ Pairing
    \/ G1Compress
    \/ G1Decompress
    \/ G2Compress
    \/ G2Decompress
    \/ Verify
    \/ ConvertEndianness
    \/ ConvertEndiannessAgain
    \/ IntoU32

Spec == Init /\ [][Next]_vars

----------------------------------------------------------------------------
(* Properties *)

\* C1: a G1 addition whose input is longer than 128 bytes returns
\* PreparingInputsG1AdditionFailed, and the provider is not invoked during the call.
C1_AdditionTooLongRejected ==
    (pc = "done" /\ op = "alt_bn128_addition" /\ Len(input) > 128)
        => (ret = Err("PreparingInputsG1AdditionFailed") /\ syscalls = <<>>)

C1_Witness ==
    /\ pc = "done" /\ op = "alt_bn128_addition" /\ target_os = "solana"
    /\ Len(input) = 129
    /\ ret = Err("PreparingInputsG1AdditionFailed") /\ syscalls = <<>>

\* C2: a multi-pairing whose input length is not a multiple of 192 returns
\* ProofVerificationFailed, and the provider is not invoked during the call.
C2_PairingLengthRejected ==
    (pc = "done" /\ op = "alt_bn128_pairing" /\ Len(input) % 192 # 0)
        => (ret = Err("ProofVerificationFailed") /\ syscalls = <<>>)

C2_Witness ==
    /\ pc = "done" /\ op = "alt_bn128_pairing" /\ target_os = "solana"
    /\ Len(input) = 64
    /\ ret = Err("ProofVerificationFailed") /\ syscalls = <<>>

C4_StatusTranslation ==
    (pc = "done" /\ target_os = "solana" /\ op \in Operations) =>
        LET size == CASE op = "alt_bn128_addition" -> 64
                      [] op = "alt_bn128_multiplication" -> 64
                      [] op = "alt_bn128_pairing" -> 32
                      [] op = "alt_bn128_g1_compress" -> 32
                      [] op = "alt_bn128_g1_decompress" -> 64
                      [] op = "alt_bn128_g2_compress" -> 64
                      [] op = "alt_bn128_g2_decompress" -> 128
            designated == CASE op = "alt_bn128_addition" -> "PreparingInputsG1AdditionFailed"
                      [] op = "alt_bn128_multiplication" -> "PreparingInputsG1MulFailed"
                      [] op = "alt_bn128_pairing" -> "ProofVerificationFailed"
                      [] op = "alt_bn128_g1_compress" -> "ProofConversionError"
                      [] op = "alt_bn128_g1_decompress" -> "DecompressingG1Failed"
                      [] op = "alt_bn128_g2_compress" -> "ProofConversionError"
                      [] op = "alt_bn128_g2_decompress" -> "DecompressingG2Failed"
            guarded == \/ op = "alt_bn128_addition" /\ Len(input) > 128
                       \/ op = "alt_bn128_multiplication" /\ Len(input) > 96
                       \/ op = "alt_bn128_pairing" /\ Len(input) % 192 # 0
        IN  IF guarded THEN syscalls = <<>>
            ELSE /\ Len(syscalls) = 1
                 /\ Len(syscalls[1].result) = size
                 /\ syscalls[1].return_code = 0 => ret = Ok(syscalls[1].result)
                 /\ syscalls[1].return_code # 0 => ret = Err(designated)

C4_Witness ==
    /\ pc = "done" /\ target_os = "solana" /\ op = "alt_bn128_g1_decompress"
    /\ Len(syscalls) = 1
    /\ syscalls[1].return_code = 2
    /\ syscalls[1].result[64] = 1
    /\ ret = Err("DecompressingG1Failed")

\* C5: the u32 code of an error kind is the one of the fixed table, no other kind
\* of the build has the same code, and the codes 0..10 are the same with and
\* without the optional variant, which has code 11.
C5_ErrorCodes ==
    (pc = "done" /\ op = "u32_from") =>
        /\ <<error, code>> \in
              {<<"IncompatibleVerifyingKeyWithNrPublicInputs", 0>>,
               <<"ProofVerificationFailed", 1>>,
               <<"PreparingInputsG1AdditionFailed", 2>>,
               <<"PreparingInputsG1MulFailed", 3>>,
               <<"InvalidG1Length", 4>>,
               <<"InvalidG2Length", 5>>,
               <<"InvalidPublicInputsLength", 6>>,
               <<"DecompressingG1Failed", 7>>,
               <<"DecompressingG2Failed", 8>>,
               <<"PublicInputGreaterThanFieldSize", 9>>,
               <<"ProofConversionError", 10>>,
               <<"ArkworksSerializationError", 11>>}
        /\ \A e \in Groth16Error(circom) \ {error} : u32_from(e) # code
        /\ error = "ArkworksSerializationError" => circom

C5_Witness ==
    /\ pc = "done" /\ op = "u32_from" /\ circom
    /\ error = "ProofConversionError" /\ code = 10

\* C6: for a buffer whose length is a multiple of the chunk size (>= 1), the
\* transform succeeds and applying it a second time with the same chunk size
\* gives back the original bytes.
C6_SelfInverse ==
    /\ (pc = "done" /\ op = "convert_endianness" /\ chunk_size >= 1
          /\ Len(input) % chunk_size = 0)
          => (ret.kind = "Ok" /\ Len(ret.value) = Len(input))
    /\ (pc = "restored" /\ chunk_size >= 1 /\ Len(input) % chunk_size = 0)
          => restored = input

C6_Witness ==
    /\ pc = "restored" /\ chunk_size = 2 /\ Len(input) = 4
    /\ ret.value # input
    /\ restored = input

\* C7: for a buffer whose length is a multiple of the chunk size, every chunk is
\* reversed in place and the chunks keep their order:
\* output[k*c + i] = input[k*c + (c-1-i)]; [1..64] with c = 32 gives
\* [32..1, 64..33] and [1..128] with c = 64 gives [64..1, 128..65].
C7_ChunksReversed ==
    (pc = "done" /\ op = "convert_endianness" /\ chunk_size >= 1
       /\ Len(input) % chunk_size = 0) =>
        /\ ret.kind = "Ok"
        /\ Len(ret.value) = Len(input)
        /\ \A k \in 0..((Len(input) \div chunk_size) - 1), i \in 0..(chunk_size - 1) :
              ret.value[k * chunk_size + i + 1]
                 = input[k * chunk_size + (chunk_size - 1 - i) + 1]
        /\ (input = [j \in 1..64 |-> j] /\ chunk_size = 32)
              => ret.value = [j \in 1..64 |-> IF j <= 32 THEN 33 - j ELSE 97 - j]
        /\ (input = [j \in 1..128 |-> j] /\ chunk_size = 64)
              => ret.value = [j \in 1..128 |-> IF j <= 64 THEN 65 - j ELSE 193 - j]

C7_Witness ==
    /\ pc = "done" /\ op = "convert_endianness" /\ chunk_size = 32
    /\ input = [j \in 1..64 |-> j]
    /\ ret.kind = "Ok"
    /\ ret.value[1] = 32 /\ ret.value[32] = 1
    /\ ret.value[33] = 64 /\ ret.value[64] = 33

\* C8: in a build for another target every one of the seven operations returns
\* its designated error, whatever the input, and never Ok.
C8_OtherTargetAlwaysFails ==
    (pc = "done" /\ target_os # "solana" /\ op \in Operations) =>
        ret = Err(CASE op = "alt_bn128_addition" -> "PreparingInputsG1AdditionFailed"
                    [] op = "alt_bn128_multiplication" -> "PreparingInputsG1MulFailed"
                    [] op = "alt_bn128_pairing" -> "ProofVerificationFailed"
                    [] op = "alt_bn128_g1_compress" -> "ProofConversionError"
                    [] op = "alt_bn128_g1_decompress" -> "DecompressingG1Failed"
                    [] op = "alt_bn128_g2_compress" -> "ProofConversionError"
                    [] op = "alt_bn128_g2_decompress" -> "DecompressingG2Failed")

C8_Witness ==
    /\ pc = "done" /\ target_os = "other" /\ op = "alt_bn128_g1_compress"
    /\ Len(input) = 64
    /\ ret = Err("ProofConversionError")

\* C9: a G1 scalar multiplication whose input is longer than 96 bytes returns
\* PreparingInputsG1MulFailed without invoking the provider, and every invocation
\* of the provider's G1 multiplication has an input of at most 96 bytes.
C9_MultiplicationTooLongRejected ==
    /\ (pc = "done" /\ op = "alt_bn128_multiplication" /\ Len(input) > 96)
          => (ret = Err("PreparingInputsG1MulFailed") /\ syscalls = <<>>)
    /\ \A n \in 1..Len(syscalls) :
          (syscalls[n].fn = "sol_alt_bn128_group_op" /\ syscalls[n].op = 2)
             => syscalls[n].input_len <= 96

C9_Witness ==
    /\ pc = "done" /\ op = "alt_bn128_multiplication" /\ target_os = "solana"
    /\ Len(input) = 97
    /\ ret = Err("PreparingInputsG1MulFailed") /\ syscalls = <<>>

\* C10: for every length L and chunk size c >= 1, divisible or not, the transform
\* does not panic, stores only at indices below L, stores at every index exactly
\* once, returns a permutation of the input bytes whose trailing r = L mod c bytes
\* are the input's trailing r bytes reversed, and applied twice gives the input.
C10_PartialChunk ==
    /\ (pc = "done" /\ op = "convert_endianness" /\ chunk_size >= 1) =>
          LET L == Len(input)
              q == L \div chunk_size
              r == L % chunk_size
          IN  /\ ret.kind = "Ok"
              /\ Len(ret.value) = L
              /\ \A n \in 1..Len(writes) : writes[n].idx \in 0..(L - 1)
              /\ \A j \in 0..(L - 1) :
                    Cardinality({n \in 1..Len(writes) : writes[n].idx = j}) = 1
              /\ \A v \in {input[j] : j \in 1..L} \cup {ret.value[j] : j \in 1..L} :
                    Cardinality({j \in 1..L : input[j] = v})
                       = Cardinality({j \in 1..L : ret.value[j] = v})
              /\ \A i \in 0..(r - 1) :
                    ret.value[q * chunk_size + i + 1]
                       = input[q * chunk_size + (r - 1 - i) + 1]
    /\ (pc = "restored" /\ chunk_size >= 1) => restored = input

C10_Witness ==
    /\ pc = "restored" /\ chunk_size = 3 /\ Len(input) = 5
    /\ input[4] # input[5]
    /\ ret.value[4] = input[5] /\ ret.value[5] = input[4]
    /\ Len(writes) = 5
    /\ restored = input
====
